---------------------------- MODULE Spec2Model ----------------------------
(***************************************************************************)
(* Model of crwg.py, the Custom Russian Wordlists Generator.               *)
(*                                                                         *)
(* Text is modelled as Python models it: a str is a sequence of Unicode    *)
(* code points, so a character is a natural number (1081 is U+0439, the    *)
(* Cyrillic letter short i) and a file's content is one sequence of code   *)
(* points, line feeds included.                                            *)
(***************************************************************************)
EXTENDS Naturals, Sequences, FiniteSets

VARIABLES
    \* the ru_inv_en language pack applied to a string
    mOrig, mText, mOps,
    \* autoclean
    cDict, cCorpus, cPos, cOut, cKept, cPc, cLog, cReported,
    \* generatedictionary
    gDest, gPc, gGendic, gLines, gPos, gStdout, gDestAtCall, gOpened, gPrior, gRuns,
    \* compare_two_password_bases
    pLeaked, pDict, pPc, pPos, pLines, pSet, pB3, pRanked, pReport,
    \* main and downloaddictionaries
    aArgs, aPc, aFiles, aLog, aExit, aRan, fPc, fFail, fMembers

mapVars   == <<mOrig, mText, mOps>>
cleanVars == <<cDict, cCorpus, cPos, cOut, cKept, cPc, cLog, cReported>>
genVars   == <<gDest, gPc, gGendic, gLines, gPos, gStdout, gDestAtCall, gOpened, gPrior, gRuns>>
cmpVars   == <<pLeaked, pDict, pPc, pPos, pLines, pSet, pB3, pRanked, pReport>>
mainVars  == <<aArgs, aPc, aFiles, aLog, aExit, aRan, fPc, fFail, fMembers>>
vars      == <<mapVars, cleanVars, genVars, cmpVars, mainVars>>

---------------------------------------------------------------------------
(* Bounds of the model. *)
MaxMapLen == 2
MaxMapOps == 2
MaxCorpusLen == 6
MaxSourceLen == 3
MaxRuns == 2
MaxLeakedLen == 6
MaxDictLen == 3
MaxMembers == 2

---------------------------------------------------------------------------
(* Sequences and text. *)

\* All sequences over S of length at most n.
SeqUpTo(S, n) == UNION {[1..k -> S] : k \in 0..n}

Range(s) == {s[i] : i \in 1..Len(s)}

RECURSIVE Flatten(_)
Flatten(ss) == IF ss = <<>> THEN <<>> ELSE Head(ss) \o Flatten(Tail(ss))

IsPrefix(s, t) == Len(s) <= Len(t) /\ SubSeq(t, 1, Len(s)) = s

\* A file: whether it exists, and its content.
NoFile == [exists |-> FALSE, data |-> <<>>]
File(d) == [exists |-> TRUE, data |-> d]

LF == 10

\* The characters str.splitlines and a codecs reader's line iteration break
\* lines at; CR LF counts as one break.
LineBreaks == {10, 11, 12, 13, 28, 29, 30, 133, 8232, 8233}

BreakLen(s, i) == IF s[i] = 13 /\ i < Len(s) /\ s[i + 1] = 10 THEN 2 ELSE 1

\* s.splitlines(keepends=True): what "for line in fin" yields.
RECURSIVE SplitLinesKeep(_)
SplitLinesKeep(s) ==
    IF s = <<>> THEN <<>>
    ELSE LET brk == {i \in 1..Len(s) : s[i] \in LineBreaks}
         IN  IF brk = {} THEN <<s>>
             ELSE LET p == CHOOSE i \in brk : \A j \in brk : i <= j
                      e == p + BreakLen(s, p) - 1
                  IN  <<SubSeq(s, 1, e)>> \o SplitLinesKeep(SubSeq(s, e + 1, Len(s)))

\* A line without its line break.
Chomp(line) ==
    LET brk == {i \in 1..Len(line) : line[i] \in LineBreaks}
    IN  IF brk = {} THEN line
        ELSE SubSeq(line, 1, (CHOOSE i \in brk : \A j \in brk : i <= j) - 1)

\* s.splitlines()
SplitLines(s) ==
    LET ls == SplitLinesKeep(s) IN [i \in 1..Len(ls) |-> Chomp(ls[i])]

\* str.isspace: the characters str.strip() trims and str.split() splits at.
IsSpace(c) ==
    c \in (9..13) \cup (28..32) \cup {133, 160, 5760} \cup (8192..8202)
            \cup {8232, 8233, 8239, 8287, 12288}

\* line.split(): the maximal runs of non-space characters, in order.
RECURSIVE SplitFields(_)
SplitFields(s) ==
    IF s = <<>> THEN <<>>
    ELSE IF IsSpace(s[1]) THEN SplitFields(Tail(s))
    ELSE LET sp == {i \in 1..Len(s) : IsSpace(s[i])}
         IN  IF sp = {} THEN <<s>>
             ELSE LET p == CHOOSE i \in sp : \A j \in sp : i <= j
                  IN  <<SubSeq(s, 1, p - 1)>> \o SplitFields(SubSeq(s, p, Len(s)))

\* line.strip(): the line without its leading and trailing space characters.
Strip(s) ==
    LET ns == {i \in 1..Len(s) : ~IsSpace(s[i])}
    IN  IF ns = {} THEN <<>>
        ELSE SubSeq(s, CHOOSE i \in ns : \A j \in ns : i <= j,
                       CHOOSE i \in ns : \A j \in ns : j <= i)

\* str.lower() of one character, as Unicode's lowercase mapping gives it for
\* ASCII, the Cyrillic block and the three characters whose lowercase leaves
\* their block: U+212A KELVIN SIGN gives "k", U+212B ANGSTROM SIGN gives
\* U+00E5, U+0130 gives "i" followed by U+0307.
LowerChar(c) ==
    IF c \in 65..90 THEN <<c + 32>>
    ELSE IF c \in 1040..1071 THEN <<c + 32>>
    ELSE IF c \in 1024..1039 THEN <<c + 80>>
    ELSE IF c = 8490 THEN <<107>>
    ELSE IF c = 8491 THEN <<229>>
    ELSE IF c = 304 THEN <<105, 775>>
    ELSE <<c>>

Lower(s) == Flatten([i \in 1..Len(s) |-> LowerChar(s[i])])

---------------------------------------------------------------------------
(* The ru_inv_en language pack: a Russian keyboard typed on the English    *)
(* QWERTY layout.  mapping[0] is the 33 Cyrillic letters                   *)
(* "йцукенгшщзхъфывапролджэёячсмитьбю", mapping[1] the 33 characters       *)
(* "qwertyuiop[]asdfghjkl;'\zxcvbnm,." of the same keys.                   *)

RuInvEnSource ==
    << 1081, 1094, 1091, 1082, 1077, 1085, 1075, 1096, 1097, 1079, 1093, 1098,
       1092, 1099, 1074, 1072, 1087, 1088, 1086, 1083, 1076, 1078, 1101,
       1105,
       1103, 1095, 1089, 1084, 1080, 1090, 1100, 1073, 1102 >>

\* The mapping with the second key typed as the first one: two letters share a key.
RuInvEnTargetDup ==
    << 113, 113, 101, 114, 116, 121, 117, 105, 111, 112, 91, 93,
       97, 115, 100, 102, 103, 104, 106, 107, 108, 59, 39,
       92,
       122, 120, 99, 118, 98, 110, 109, 44, 46 >>

RuInvEnTarget ==
    << 113, 119, 101, 114, 116, 121, 117, 105, 111, 112, 91, 93,
       97, 115, 100, 102, 103, 104, 106, 107, 108, 59, 39,
       92,
       122, 120, 99, 118, 98, 110, 109, 44, 46 >>

\* str.translate with the table the pack builds from zip(from, to): a later
\* pair overrides an earlier one with the same key, other characters stay.
TranslateChar(from, to, c) ==
    LET hits == {i \in 1..Len(from) : from[i] = c}
    IN  IF hits = {} THEN c
        ELSE to[CHOOSE i \in hits : \A j \in hits : j <= i]

\* translit(s, 'ru_inv_en'): Cyrillic letter to the QWERTY character of its key.
RuInvEnForward(s) ==
    [i \in 1..Len(s) |-> TranslateChar(RuInvEnSource, RuInvEnTarget, s[i])]

\* translit(s, 'ru_inv_en', reversed=True): QWERTY character to Cyrillic letter.
RuInvEnReversed(s) ==
    [i \in 1..Len(s) |-> TranslateChar(RuInvEnTarget, RuInvEnSource, s[i])]

CyrillicAlphabet == Range(RuInvEnSource)
QwertyAlphabet   == Range(RuInvEnTarget)
MapAlphabet      == CyrillicAlphabet \cup QwertyAlphabet

---------------------------------------------------------------------------
(* Specification SpecMap: a string over the two alphabets, to which the    *)
(* pack is applied forward and reversed, at most twice.                    *)

MapIdle ==
    /\ mOrig = <<>> /\ mText = <<>> /\ mOps = <<>>

MapForward ==
    /\ Len(mOps) < MaxMapOps
    /\ mText' = RuInvEnForward(mText)
    /\ mOps' = Append(mOps, "forward")
    /\ UNCHANGED <<mOrig, cleanVars, genVars, cmpVars, mainVars>>

MapReverse ==
    /\ Len(mOps) < MaxMapOps
    /\ mText' = RuInvEnReversed(mText)
    /\ mOps' = Append(mOps, "reversed")
    /\ UNCHANGED <<mOrig, cleanVars, genVars, cmpVars, mainVars>>


---------------------------------------------------------------------------
(* autoclean: the downloaded corpus stripped to its clean words.           *)

\* The column of the word: opencorpora has it first, ruscorpora second.
ColumnIndex(dictionary_strings) ==
    IF dictionary_strings = "opencorpora" THEN 0 ELSE 1

\* regex.search(word) for [a-zA-Z0-9_]
RegexSearch(word) ==
    \E i \in 1..Len(word) :
        word[i] \in (97..122) \cup (65..90) \cup (48..57) \cup {95}

\* The loop body without the test of the number of fields: parts[idx] raises
\* IndexError on a line with too few of them.
ProcessLineUnguarded(line, idx) ==
    IF Strip(line) = <<>> THEN [kind |-> "blank", text |-> <<>>]
    ELSE LET parts == SplitFields(line)
         IN  IF Len(parts) <= idx THEN [kind |-> "IndexError", text |-> <<>>]
             ELSE LET word == parts[idx + 1]
                  IN  IF RegexSearch(word) \/ Len(word) <= 3
                      THEN [kind |-> "rejected", text |-> <<>>]
                      ELSE [kind |-> "emitted", text |-> Lower(word) \o <<LF>>]

\* One pass of the loop body over a line: what happens to the line and the
\* text written to the output for it.
ProcessLine(line, idx) ==
    IF Strip(line) = <<>> THEN [kind |-> "blank", text |-> <<>>]
    ELSE LET parts == SplitFields(line)
         IN  IF Len(parts) <= idx THEN [kind |-> "malformed", text |-> <<>>]
             ELSE LET word == parts[idx + 1]
                  IN  IF RegexSearch(word) \/ Len(word) <= 3
                      THEN [kind |-> "rejected", text |-> <<>>]
                      ELSE [kind |-> "emitted", text |-> Lower(word) \o <<LF>>]

CleanIdle ==
    /\ cDict = "opencorpora" /\ cCorpus = <<>> /\ cPos = 0 /\ cOut = NoFile
    /\ cKept = 0 /\ cPc = "idle" /\ cLog = <<>> /\ cReported = <<>>

\* The two files are opened: the source for reading, the output for writing,
\* which creates it empty or empties it.
CleanOpen ==
    /\ cPc = "start"
    /\ cOut' = File(<<>>)
    /\ cKept' = 0
    /\ cPc' = "loop"
    /\ UNCHANGED <<cDict, cCorpus, cPos, cLog, cReported>>
    /\ UNCHANGED <<mapVars, genVars, cmpVars, mainVars>>

\* The loop body on the next line of the source.
CleanStep ==
    /\ cPc = "loop"
    /\ cPos < Len(SplitLinesKeep(cCorpus))
    /\ LET r == ProcessLine(SplitLinesKeep(cCorpus)[cPos + 1], ColumnIndex(cDict))
       IN  /\ cPos' = cPos + 1
           /\ cLog' = Append(cLog, r)
           /\ IF r.kind = "IndexError"
              THEN /\ cPc' = "raised"
                   /\ UNCHANGED <<cOut, cKept>>
              ELSE /\ cPc' = "loop"
                   /\ cOut' = File(cOut.data \o r.text)
                   /\ cKept' = cKept + (IF r.kind = "emitted" THEN 1 ELSE 0)
    /\ UNCHANGED <<cDict, cCorpus, cReported>>
    /\ UNCHANGED <<mapVars, genVars, cmpVars, mainVars>>

\* The source is exhausted: the files are closed and the count is printed.
CleanDone ==
    /\ cPc = "loop"
    /\ cPos = Len(SplitLinesKeep(cCorpus))
    /\ cReported' = <<cKept>>
    /\ cPc' = "done"
    /\ UNCHANGED <<cDict, cCorpus, cPos, cOut, cKept, cLog>>
    /\ UNCHANGED <<mapVars, genVars, cmpVars, mainVars>>


---------------------------------------------------------------------------
(* The 'ru' language pack of the transliterate package in reversed mode,   *)
(* translit(s, 'ru', reversed=True): each Cyrillic letter becomes its      *)
(* Latin rendering, of one to three characters; other characters stay.     *)
(* The table is the pack's, for the lowercase letters a stripped wordlist  *)
(* holds, in alphabetical order from U+0430 to U+044F, then U+0451.        *)

RuCyrillic ==
    << 1072, 1073, 1074, 1075, 1076, 1077, 1078, 1079, 1080, 1081, 1082,
       1083, 1084, 1085, 1086, 1087, 1088, 1089, 1090, 1091, 1092, 1093,
       1094, 1095, 1096, 1097, 1098, 1099, 1100, 1101, 1102, 1103, 1105 >>

RuLatin ==
    << <<97>>, <<98>>, <<118>>, <<103>>, <<100>>, <<101>>, <<122, 104>>,
       <<122>>, <<105>>, <<106>>, <<107>>, <<108>>, <<109>>, <<110>>,
       <<111>>, <<112>>, <<114>>, <<115>>, <<116>>, <<117>>, <<102>>,
       <<104>>, <<116, 115>>, <<99, 104>>, <<115, 104>>, <<115, 99, 104>>,
       <<39>>, <<121>>, <<39>>, <<101>>, <<106, 117>>, <<106, 97>>, <<101>> >>

RuReversedChar(c) ==
    IF \E i \in 1..Len(RuCyrillic) : RuCyrillic[i] = c
    THEN RuLatin[CHOOSE i \in 1..Len(RuCyrillic) : RuCyrillic[i] = c]
    ELSE <<c>>

RuReversed(s) == Flatten([i \in 1..Len(s) |-> RuReversedChar(s[i])])

---------------------------------------------------------------------------
(* generatedictionary: a derived dictionary appended to the destination.   *)

\* The choices of --gendic.
Schemes == {"ru_inv_en", "translit", "tran5l1t"}

\* The schemes with a branch that writes.
Implemented == {"ru_inv_en", "translit"}

\* What a caller may pass: a scheme, or an identifier that is none of them.
GendicInputs == Schemes \cup {"l33t"}

\* Both schemes given reversed=True.
GenLineBothReversed(gendic, line) ==
    IF gendic = "translit" THEN RuReversed(line) ELSE RuInvEnReversed(line)

\* The text written for a line, without its line feed: 'translit' calls the
\* 'ru' pack with reversed=True, 'ru_inv_en' calls its pack without it.
GenLine(gendic, line) ==
    IF gendic = "translit" THEN RuReversed(line) ELSE RuInvEnForward(line)

\* The placeholder scheme not tested before the destination is opened.
ReturnsEarlyNever(gendic) == FALSE

\* The test that ends the call before the destination is opened.
ReturnsEarly(gendic) == gendic = "tran5l1t"

\* codecs.open(destination, "w"): the file emptied.
OpenTruncate(f) == File(<<>>)

\* codecs.open(destination, "a+"): the file created if it does not exist,
\* its content kept, every write at its end.
OpenAppend(f) == File(f.data)

\* The characters of the sources the model reads: the line feed, the
\* Cyrillic letter zhe and the Latin letter q.
GenAlphabet == {LF, 1078, 113}

GenIdle ==
    /\ gDest = NoFile /\ gPc = "idle" /\ gGendic = "translit" /\ gLines = <<>>
    /\ gPos = 0 /\ gStdout = <<>> /\ gDestAtCall = NoFile /\ gOpened = FALSE
    /\ gPrior = NoFile /\ gRuns = <<>>

\* The call: the source is read whole and split into lines, and the scheme
\* is announced.  A source that does not exist raises.
GenCall ==
    /\ gPc \in {"idle", "returned", "raised"}
    /\ Len(gRuns) < MaxRuns
    /\ \E gendic \in GendicInputs,
          source \in {NoFile} \cup {File(d) : d \in SeqUpTo(GenAlphabet, MaxSourceLen)} :
        /\ gGendic' = gendic
        /\ gDestAtCall' = gDest
        /\ gOpened' = FALSE
        /\ gPos' = 0
        /\ IF source.exists
           THEN /\ gLines' = SplitLines(source.data)
                /\ gStdout' = <<"Making dictionary">>
                /\ gRuns' = Append(gRuns, [gendic |-> gendic, lines |-> SplitLines(source.data)])
                /\ gPc' = "read"
           ELSE /\ gLines' = <<>>
                /\ gStdout' = <<>>
                /\ gRuns' = Append(gRuns, [gendic |-> gendic, lines |-> <<>>])
                /\ gPc' = "raised"
    /\ UNCHANGED <<gDest, gPrior>>
    /\ UNCHANGED <<mapVars, cleanVars, cmpVars, mainVars>>

\* The placeholder scheme: reported, and the call returns.
GenNotImplemented ==
    /\ gPc = "read"
    /\ ReturnsEarly(gGendic)
    /\ gStdout' = Append(gStdout, "Not implemented yet")
    /\ gPc' = "returned"
    /\ UNCHANGED <<gDest, gGendic, gLines, gPos, gDestAtCall, gOpened, gPrior, gRuns>>
    /\ UNCHANGED <<mapVars, cleanVars, cmpVars, mainVars>>

\* Any other scheme: the destination is opened for appending.
GenOpen ==
    /\ gPc = "read"
    /\ ~ReturnsEarly(gGendic)
    /\ gDest' = OpenAppend(gDest)
    /\ gOpened' = TRUE
    /\ gPc' = "write"
    /\ UNCHANGED <<gGendic, gLines, gPos, gStdout, gDestAtCall, gPrior, gRuns>>
    /\ UNCHANGED <<mapVars, cleanVars, cmpVars, mainVars>>

\* One pass of the loop of an implemented scheme: a line written.
GenWriteLine ==
    /\ gPc = "write"
    /\ gGendic \in Implemented
    /\ gPos < Len(gLines)
    /\ gDest' = File(gDest.data \o GenLine(gGendic, gLines[gPos + 1]) \o <<LF>>)
    /\ gPos' = gPos + 1
    /\ UNCHANGED <<gPc, gGendic, gLines, gStdout, gDestAtCall, gOpened, gPrior, gRuns>>
    /\ UNCHANGED <<mapVars, cleanVars, cmpVars, mainVars>>

\* The loop is over, or no branch matches the scheme: the destination is
\* closed and the call returns.
GenClose ==
    /\ gPc = "write"
    /\ gGendic \in Implemented => gPos = Len(gLines)
    /\ gPc' = "returned"
    /\ UNCHANGED <<gDest, gGendic, gLines, gPos, gStdout, gDestAtCall, gOpened, gPrior, gRuns>>
    /\ UNCHANGED <<mapVars, cleanVars, cmpVars, mainVars>>


---------------------------------------------------------------------------
(* compare_two_password_bases: the leaked passwords found in a dictionary, *)
(* counted and ranked.                                                     *)

\* The distinct values of b in the order of their first occurrence: the
\* order in which a Counter holds its keys.
RECURSIVE FirstOccurrences(_, _)
FirstOccurrences(b, seen) ==
    IF b = <<>> THEN <<>>
    ELSE IF Head(b) \in seen THEN FirstOccurrences(Tail(b), seen)
    ELSE <<Head(b)>> \o FirstOccurrences(Tail(b), seen \cup {Head(b)})

\* Counter(b).items()
Counter(b) ==
    LET keys == FirstOccurrences(b, {})
    IN  [i \in 1..Len(keys) |->
            [word |-> keys[i],
             count |-> Cardinality({j \in 1..Len(b) : b[j] = keys[i]})]]

\* sorted(items, key=count, reverse=True): a stable sort, so items of equal
\* count keep their order.
RECURSIVE InsertByCount(_, _)
InsertByCount(sorted, x) ==
    IF sorted = <<>> THEN <<x>>
    ELSE IF Head(sorted).count >= x.count
         THEN <<Head(sorted)>> \o InsertByCount(Tail(sorted), x)
         ELSE <<x>> \o sorted

RECURSIVE SortByCount(_, _)
SortByCount(items, sorted) ==
    IF items = <<>> THEN sorted
    ELSE SortByCount(Tail(items), InsertByCount(sorted, Head(items)))

\* The items written as the Counter holds them, unsorted.
MostCommonUnsorted(items) == items

\* cnt.most_common()
MostCommon(items) == SortByCount(items, <<>>)

\* The characters of the files the model compares: the line feed and the
\* Latin letters q and w.
CmpAlphabet == {LF, 113, 119}

CmpIdle ==
    /\ pLeaked = <<>> /\ pDict = <<>> /\ pPc = "idle" /\ pPos = 0
    /\ pLines = <<>> /\ pSet = {} /\ pB3 = <<>> /\ pRanked = <<>>
    /\ pReport = NoFile

\* The two files are read whole and split into lines; the set is built.
CmpRead ==
    /\ pPc = "start"
    /\ pLines' = SplitLines(pLeaked)
    /\ pSet' = Range(SplitLines(pDict))
    /\ pB3' = <<>>
    /\ pPos' = 0
    /\ pPc' = "filter"
    /\ UNCHANGED <<pLeaked, pDict, pRanked, pReport>>
    /\ UNCHANGED <<mapVars, cleanVars, genVars, mainVars>>

\* One pass of the comprehension: the next leaked password is kept if the
\* set holds it.
CmpFilter ==
    /\ pPc = "filter"
    /\ pPos < Len(pLines)
    /\ pB3' = IF pLines[pPos + 1] \in pSet THEN Append(pB3, pLines[pPos + 1]) ELSE pB3
    /\ pPos' = pPos + 1
    /\ UNCHANGED <<pLeaked, pDict, pPc, pLines, pSet, pRanked, pReport>>
    /\ UNCHANGED <<mapVars, cleanVars, genVars, mainVars>>

\* The matches are counted and ranked, and the destination is opened for
\* writing, which creates it empty or empties it.
CmpCount ==
    /\ pPc = "filter"
    /\ pPos = Len(pLines)
    /\ pRanked' = MostCommon(Counter(pB3))
    /\ pReport' = File(<<>>)
    /\ pPos' = 0
    /\ pPc' = "write"
    /\ UNCHANGED <<pLeaked, pDict, pLines, pSet, pB3>>
    /\ UNCHANGED <<mapVars, cleanVars, genVars, mainVars>>

\* One pass of the writing loop: the line "<count> <word> <rendering>" of
\* the next ranked item, held as a record of its three fields.
CmpWrite ==
    /\ pPc = "write"
    /\ pPos < Len(pRanked)
    /\ pReport' = File(Append(pReport.data,
                       [count |-> pRanked[pPos + 1].count,
                        word |-> pRanked[pPos + 1].word,
                        rendering |-> RuInvEnReversed(pRanked[pPos + 1].word)]))
    /\ pPos' = pPos + 1
    /\ UNCHANGED <<pLeaked, pDict, pPc, pLines, pSet, pB3, pRanked>>
    /\ UNCHANGED <<mapVars, cleanVars, genVars, mainVars>>

\* The destination is closed and "Done" is printed.
CmpDone ==
    /\ pPc = "write"
    /\ pPos = Len(pRanked)
    /\ pPc' = "done"
    /\ UNCHANGED <<pLeaked, pDict, pPos, pLines, pSet, pB3, pRanked, pReport>>
    /\ UNCHANGED <<mapVars, cleanVars, genVars, mainVars>>


---------------------------------------------------------------------------
(* downloaddictionaries, as main calls it: the archive of the corpus is    *)
(* retrieved into the working directory and unpacked there.  aFiles is the *)
(* set of the files that exist.                                            *)

\* os.path.basename(url)
ArchiveName(d) == IF d = "ruscorpora" THEN "1grams-3.zip" ELSE "dict.opcorpora.txt.bz2"

\* The file autoclean reads: the archive's name without its extension, with
\* ".txt" for ruscorpora.
CorpusName(d) == IF d = "ruscorpora" THEN "1grams-3.txt" ELSE "dict.opcorpora.txt"

StrippedName(d) == IF d = "ruscorpora" THEN "ruscorpora_dict_stripped" ELSE "opencorpora_dict_stripped"

\* The members a ZIP archive may hold: a name, and whether its data reads.
ZipMembers ==
    { [name |-> "1grams-3.txt", good |-> TRUE],
      [name |-> "1grams-3.txt", good |-> FALSE],
      [name |-> "README", good |-> TRUE] }

FetchIdle == fPc = "idle" /\ fFail = "none" /\ fMembers = <<>>

\* urlretrieve: the archive arrives, or IOError is caught, reported, and the
\* step returns.
FetchRetrieve ==
    /\ fPc = "retrieve"
    /\ \E arrives \in BOOLEAN :
        IF arrives
        THEN /\ aFiles' = aFiles \cup {ArchiveName(aArgs.download)}
             /\ fPc' = "extract"
             /\ UNCHANGED <<aLog, fFail>>
        ELSE /\ aLog' = Append(aLog, "Can't retrieve")
             /\ fFail' = "fetch"
             /\ fPc' = "returned"
             /\ UNCHANGED aFiles
    /\ UNCHANGED <<aArgs, aPc, aExit, aRan, fMembers>>
    /\ UNCHANGED <<mapVars, cleanVars, genVars, cmpVars>>

\* ruscorpora: zipfile.ZipFile opens the archive, or BadZipFile is caught,
\* reported, and the step returns.
FetchOpenZip ==
    /\ fPc = "extract"
    /\ aArgs.download = "ruscorpora"
    /\ \E opens \in BOOLEAN, members \in SeqUpTo(ZipMembers, MaxMembers) :
        IF opens
        THEN /\ fMembers' = members
             /\ fPc' = "members"
             /\ UNCHANGED <<aLog, fFail>>
        ELSE /\ aLog' = Append(aLog, "Bad zipfile")
             /\ fFail' = "open"
             /\ fPc' = "returned"
             /\ UNCHANGED fMembers
    /\ UNCHANGED <<aArgs, aPc, aFiles, aExit, aRan>>
    /\ UNCHANGED <<mapVars, cleanVars, genVars, cmpVars>>

\* ruscorpora: one pass of the loop over the archive's names.  z.read(n) is
\* outside any try: a member whose data does not read raises BadZipFile out
\* of the step.
FetchMember ==
    /\ fPc = "members"
    /\ fMembers # <<>>
    /\ IF Head(fMembers).good
       THEN /\ aFiles' = aFiles \cup {Head(fMembers).name}
            /\ fMembers' = Tail(fMembers)
            /\ UNCHANGED <<fPc, fFail>>
       ELSE /\ fFail' = "decompress"
            /\ fPc' = "raised"
            /\ UNCHANGED <<aFiles, fMembers>>
    /\ UNCHANGED <<aArgs, aPc, aLog, aExit, aRan>>
    /\ UNCHANGED <<mapVars, cleanVars, genVars, cmpVars>>

\* ruscorpora: the archive is closed and deleted.
FetchUnlink ==
    /\ fPc = "members"
    /\ fMembers = <<>>
    /\ aFiles' = aFiles \ {ArchiveName(aArgs.download)}
    /\ fPc' = "returned"
    /\ UNCHANGED <<aArgs, aPc, aLog, aExit, aRan, fFail, fMembers>>
    /\ UNCHANGED <<mapVars, cleanVars, genVars, cmpVars>>

\* opencorpora: bz2.BZ2File(...).read() is outside any try: data that is no
\* bz2 stream raises out of the step.  Otherwise the corpus is written.
FetchBunzip ==
    /\ fPc = "extract"
    /\ aArgs.download = "opencorpora"
    /\ \E valid \in BOOLEAN :
        IF valid
        THEN /\ aFiles' = aFiles \cup {CorpusName(aArgs.download)}
             /\ fPc' = "returned"
             /\ UNCHANGED fFail
        ELSE /\ fFail' = "decompress"
             /\ fPc' = "raised"
             /\ UNCHANGED aFiles
    /\ UNCHANGED <<aArgs, aPc, aLog, aExit, aRan, fMembers>>
    /\ UNCHANGED <<mapVars, cleanVars, genVars, cmpVars>>

---------------------------------------------------------------------------
(* main: the command line parsed, then the four operations in their fixed  *)
(* order, each validated when its turn comes.  aArgs holds, for an option  *)
(* with a value, whether a non-empty value was given.                      *)

ArgSets ==
    [download : {"none", "ruscorpora", "opencorpora"},
     autoclean : BOOLEAN,
     gendic : {"none"} \cup Schemes,
     source : BOOLEAN, destination : BOOLEAN, dictionary : BOOLEAN,
     compare : BOOLEAN]

\* python crwg.py, with no argument at all.
NoArguments(a) ==
    /\ a.download = "none" /\ ~a.autoclean /\ a.gendic = "none"
    /\ ~a.source /\ ~a.destination /\ ~a.dictionary /\ ~a.compare

MainIdle ==
    /\ aArgs = [download |-> "none", autoclean |-> FALSE, gendic |-> "none",
                source |-> FALSE, destination |-> FALSE, dictionary |-> FALSE,
                compare |-> FALSE]
    /\ aPc = "idle" /\ aFiles = {} /\ aLog = <<>> /\ aExit = <<>> /\ aRan = <<>>
    /\ FetchIdle

\* No argument: the help is printed and the process exits with status 1.
\* Otherwise the arguments are parsed and the banner is printed.
MainParse ==
    /\ aPc = "start"
    /\ IF NoArguments(aArgs)
       THEN /\ aLog' = Append(aLog, "help")
            /\ aExit' = <<1>>
            /\ aPc' = "exited"
       ELSE /\ aLog' = Append(aLog, "banner")
            /\ aPc' = "download"
            /\ UNCHANGED aExit
    /\ UNCHANGED <<aArgs, aFiles, aRan, fPc, fFail, fMembers>>
    /\ UNCHANGED <<mapVars, cleanVars, genVars, cmpVars>>

\* if args.downloaddictionaries: downloaddictionaries(...)
MainDownload ==
    /\ aPc = "download"
    /\ IF aArgs.download # "none"
       THEN /\ aRan' = Append(aRan, "downloaddictionaries")
            /\ fPc' = "retrieve"
            /\ aPc' = "downloading"
       ELSE /\ aPc' = "autoclean"
            /\ UNCHANGED <<aRan, fPc>>
    /\ UNCHANGED <<aArgs, aFiles, aLog, aExit, fFail, fMembers>>
    /\ UNCHANGED <<mapVars, cleanVars, genVars, cmpVars>>

\* downloaddictionaries returns: main goes on.
MainDownloadReturns ==
    /\ aPc = "downloading"
    /\ fPc = "returned"
    /\ aPc' = "autoclean"
    /\ UNCHANGED <<aArgs, aFiles, aLog, aExit, aRan, fPc, fFail, fMembers>>
    /\ UNCHANGED <<mapVars, cleanVars, genVars, cmpVars>>

\* downloaddictionaries raises: nothing in main catches it, the traceback is
\* printed and the process exits with status 1.
MainDownloadRaises ==
    /\ aPc = "downloading"
    /\ fPc = "raised"
    /\ aLog' = Append(aLog, "Traceback")
    /\ aExit' = <<1>>
    /\ aPc' = "exited"
    /\ UNCHANGED <<aArgs, aFiles, aRan, fPc, fFail, fMembers>>
    /\ UNCHANGED <<mapVars, cleanVars, genVars, cmpVars>>

\* if args.autoclean: ... autoclean(...), which opens the corpus for reading
\* and then writes the stripped wordlist.  Here and below, parser.error
\* prints the message and the help and exits with status 2, and an operation
\* that raises ends the process with a traceback and status 1.
MainAutoclean ==
    /\ aPc = "autoclean"
    /\ IF ~aArgs.autoclean
       THEN /\ aPc' = "gendic"
            /\ UNCHANGED <<aFiles, aLog, aExit, aRan>>
       ELSE IF aArgs.download = "none"
       THEN /\ aLog' = Append(aLog, "usage error")
            /\ aExit' = <<2>>
            /\ aPc' = "exited"
            /\ UNCHANGED <<aFiles, aRan>>
       ELSE IF CorpusName(aArgs.download) \in aFiles
       THEN /\ aRan' = Append(aRan, "autoclean")
            /\ aFiles' = aFiles \cup {StrippedName(aArgs.download)}
            /\ aPc' = "gendic"
            /\ UNCHANGED <<aLog, aExit>>
       ELSE /\ aRan' = Append(aRan, "autoclean")
            /\ aLog' = Append(aLog, "Traceback")
            /\ aExit' = <<1>>
            /\ aPc' = "exited"
            /\ UNCHANGED aFiles
    /\ UNCHANGED <<aArgs, fPc, fFail, fMembers>>
    /\ UNCHANGED <<mapVars, cleanVars, genVars, cmpVars>>

\* if args.gendic: ... generatedictionary(...), which reads the source and,
\* unless the scheme is the placeholder, opens the destination for appending.
MainGendic ==
    /\ aPc = "gendic"
    /\ IF aArgs.gendic = "none"
       THEN /\ aPc' = "compare"
            /\ UNCHANGED <<aFiles, aLog, aExit, aRan>>
       ELSE IF ~(aArgs.source /\ aArgs.destination)
       THEN /\ aLog' = Append(aLog, "usage error")
            /\ aExit' = <<2>>
            /\ aPc' = "exited"
            /\ UNCHANGED <<aFiles, aRan>>
       ELSE IF "source" \in aFiles
       THEN /\ aRan' = Append(aRan, "generatedictionary")
            /\ aFiles' = IF ReturnsEarly(aArgs.gendic) THEN aFiles
                         ELSE aFiles \cup {"destination"}
            /\ aPc' = "compare"
            /\ UNCHANGED <<aLog, aExit>>
       ELSE /\ aRan' = Append(aRan, "generatedictionary")
            /\ aLog' = Append(aLog, "Traceback")
            /\ aExit' = <<1>>
            /\ aPc' = "exited"
            /\ UNCHANGED aFiles
    /\ UNCHANGED <<aArgs, fPc, fFail, fMembers>>
    /\ UNCHANGED <<mapVars, cleanVars, genVars, cmpVars>>

\* if args.compare_two_password_bases: ... compare_two_password_bases(...),
\* which reads the source and the dictionary and writes the destination.
\* Then main returns and the process exits with status 0.
MainCompare ==
    /\ aPc = "compare"
    /\ IF ~aArgs.compare
       THEN /\ aExit' = <<0>>
            /\ UNCHANGED <<aFiles, aLog, aRan>>
       ELSE IF ~(aArgs.source /\ aArgs.destination /\ aArgs.dictionary)
       THEN /\ aLog' = Append(aLog, "usage error")
            /\ aExit' = <<2>>
            /\ UNCHANGED <<aFiles, aRan>>
       ELSE IF "source" \in aFiles /\ "dictionary" \in aFiles
       THEN /\ aRan' = Append(aRan, "compare_two_password_bases")
            /\ aFiles' = aFiles \cup {"destination"}
            /\ aExit' = <<0>>
            /\ UNCHANGED aLog
       ELSE /\ aRan' = Append(aRan, "compare_two_password_bases")
            /\ aLog' = Append(aLog, "Traceback")
            /\ aExit' = <<1>>
            /\ UNCHANGED aFiles
    /\ aPc' = "exited"
    /\ UNCHANGED <<aArgs, fPc, fFail, fMembers>>
    /\ UNCHANGED <<mapVars, cleanVars, genVars, cmpVars>>


---------------------------------------------------------------------------
(* The specifications: one per operation, each starting from the inputs    *)
(* the operation may be given, the other operations idle.                  *)

InitMap ==
    /\ mOrig \in SeqUpTo(MapAlphabet, MaxMapLen)
    /\ mText = mOrig
    /\ mOps = <<>>
    /\ CleanIdle /\ GenIdle /\ CmpIdle /\ MainIdle

NextMap == MapForward \/ MapReverse

SpecMap == InitMap /\ [][NextMap]_vars

\* The characters of the corpora the model cleans: the line feed, the
\* space, the Latin letter a, the Cyrillic capital letter ya, the Kelvin sign.
CleanAlphabet == {LF, 32, 97, 1071, 8490}

InitClean ==
    /\ cDict \in {"opencorpora", "ruscorpora"}
    /\ cCorpus \in SeqUpTo(CleanAlphabet, MaxCorpusLen)
    /\ cPos = 0 /\ cOut = NoFile /\ cKept = 0 /\ cPc = "start"
    /\ cLog = <<>> /\ cReported = <<>>
    /\ MapIdle /\ GenIdle /\ CmpIdle /\ MainIdle

NextClean == CleanOpen \/ CleanStep \/ CleanDone

SpecClean == InitClean /\ [][NextClean]_vars

\* The destination before the first run: no file, an empty file, a file
\* whose last line has no line feed, a file of one line.
PriorDestinations == {NoFile, File(<<>>), File(<<113>>), File(<<1078, LF>>)}

InitGen ==
    /\ gDest \in PriorDestinations
    /\ gPrior = gDest
    /\ gDestAtCall = gDest
    /\ gPc = "idle" /\ gGendic = "translit" /\ gLines = <<>> /\ gPos = 0
    /\ gStdout = <<>> /\ gOpened = FALSE /\ gRuns = <<>>
    /\ MapIdle /\ CleanIdle /\ CmpIdle /\ MainIdle

NextGen == GenCall \/ GenNotImplemented \/ GenOpen \/ GenWriteLine \/ GenClose

SpecGen == InitGen /\ [][NextGen]_vars

\* The report before the call: no file, or the report of an earlier call.
PriorReports ==
    {NoFile, File(<<[count |-> 1, word |-> <<119>>, rendering |-> <<1094>>]>>)}

InitCmp ==
    /\ pLeaked \in SeqUpTo(CmpAlphabet, MaxLeakedLen)
    /\ pDict \in SeqUpTo(CmpAlphabet, MaxDictLen)
    /\ pReport \in PriorReports
    /\ pPc = "start" /\ pPos = 0 /\ pLines = <<>> /\ pSet = {} /\ pB3 = <<>>
    /\ pRanked = <<>>
    /\ MapIdle /\ CleanIdle /\ GenIdle /\ MainIdle

NextCmp == CmpRead \/ CmpFilter \/ CmpCount \/ CmpWrite \/ CmpDone

SpecCmp == InitCmp /\ [][NextCmp]_vars

InitMain ==
    /\ aArgs \in ArgSets
    /\ aFiles \in SUBSET {"source", "dictionary", "1grams-3.txt", "dict.opcorpora.txt"}
    /\ aPc = "start" /\ aLog = <<>> /\ aExit = <<>> /\ aRan = <<>>
    /\ FetchIdle
    /\ MapIdle /\ CleanIdle /\ GenIdle /\ CmpIdle

NextMain ==
    \/ MainParse \/ MainDownload \/ MainDownloadReturns \/ MainDownloadRaises
    \/ MainAutoclean \/ MainGendic \/ MainCompare
    \/ FetchRetrieve \/ FetchOpenZip \/ FetchMember \/ FetchUnlink \/ FetchBunzip

SpecMain == InitMain /\ [][NextMain]_vars

---------------------------------------------------------------------------
(* The properties. *)

\* What the report holds once compare_two_password_bases is done.
Matched == Range(SplitLines(pLeaked)) \cap Range(SplitLines(pDict))
Occurrences(w) ==
    Cardinality({j \in 1..Len(SplitLines(pLeaked)) : SplitLines(pLeaked)[j] = w})

\* C1: once compare_two_password_bases is done, the report holds exactly one
\* entry for each distinct leaked password that the dictionary holds and no
\* other entry, each entry's count is the number of occurrences of its word
\* in the leaked list, the counts never increase down the report, and an
\* empty dictionary gives an empty report.
ReportIsRankedIntersection ==
    pPc = "done" =>
        LET R == pReport.data
        IN  /\ pReport.exists
            /\ \A w \in Matched : Cardinality({i \in 1..Len(R) : R[i].word = w}) = 1
            /\ \A i \in 1..Len(R) :
                  /\ R[i].word \in Matched
                  /\ R[i].count = Occurrences(R[i].word)
            /\ \A i, j \in 1..Len(R) : i < j => R[i].count >= R[j].count
            /\ pDict = <<>> => R = <<>>

\* C1's case: a password leaked twice ranked before one leaked once that
\* comes first in the leaked list, and a leaked password the dictionary
\* does not hold.
ReportRanksTwoWords ==
    /\ pPc = "done"
    /\ Len(pReport.data) = 2
    /\ pReport.data[1].count = 2
    /\ pReport.data[2].count = 1
    /\ \E i, j \in 1..Len(pLines) :
          /\ i < j
          /\ pLines[i] = pReport.data[2].word
          /\ pLines[j] = pReport.data[1].word
    /\ \E i \in 1..Len(pLines) : pLines[i] \notin Range(SplitLines(pDict))

\* C2 as stated: for every string over the two alphabets, in any mixture,
\* reversed after forward and forward after reversed give the string back.
RoundTripOfAnyMixture ==
    /\ mOps = <<"forward", "reversed">> => mText = mOrig
    /\ mOps = <<"reversed", "forward">> => mText = mOrig

\* C2 as amended: reversed after forward gives back every string of
\* Cyrillic letters of the mapping, and forward after reversed gives back
\* every string of QWERTY characters of the mapping.
RoundTripOfOwnAlphabet ==
    /\ mOps = <<"forward", "reversed">> /\ Range(mOrig) \subseteq CyrillicAlphabet
           => mText = mOrig
    /\ mOps = <<"reversed", "forward">> /\ Range(mOrig) \subseteq QwertyAlphabet
           => mText = mOrig

\* C2's case: two different Cyrillic letters taken to QWERTY and back.
RoundTripOfTwoLetters ==
    /\ mOps = <<"forward", "reversed">>
    /\ Len(mOrig) = 2
    /\ mOrig[1] # mOrig[2]
    /\ Range(mOrig) \subseteq CyrillicAlphabet
    /\ mText = mOrig

\* The text a run of generatedictionary appends for the lines it read: each
\* line rendered and followed by a line feed.  'translit' renders with the
\* 'ru' pack in reversed mode; 'ru_inv_en' renders with its own pack, in
\* reversed mode (QWERTY character to Cyrillic letter) or in forward mode
\* (Cyrillic letter to QWERTY character).
RenderedReversed(gendic, lines) ==
    Flatten([i \in 1..Len(lines) |->
        (IF gendic = "translit" THEN RuReversed(lines[i])
         ELSE RuInvEnReversed(lines[i])) \o <<LF>>])

RenderedAsCalled(gendic, lines) ==
    Flatten([i \in 1..Len(lines) |->
        (IF gendic = "translit" THEN RuReversed(lines[i])
         ELSE RuInvEnForward(lines[i])) \o <<LF>>])

\* C3 as stated: after a run with an implemented scheme the destination
\* holds what it held at the call followed by, for each source line in
\* order, one line: the line's transliteration under the scheme in reversed
\* mode.
AppendsReversedRenderings ==
    gPc = "returned" /\ gGendic \in Implemented =>
        /\ gDest.exists
        /\ gDest.data = gDestAtCall.data \o RenderedReversed(gGendic, gLines)

\* C3 as amended: the same, the line's transliteration being that of the
\* 'ru' pack in reversed mode for 'translit' and that of the ru_inv_en pack
\* in forward mode, Cyrillic letter to QWERTY character, for 'ru_inv_en'.
AppendsRenderingsAsCalled ==
    gPc = "returned" /\ gGendic \in Implemented =>
        /\ gDest.exists
        /\ gDest.data = gDestAtCall.data \o RenderedAsCalled(gGendic, gLines)

\* C3's case: a run of 'ru_inv_en' over two lines, the first a Cyrillic
\* letter, has returned.
WroteTwoKeyboardLines ==
    /\ gPc = "returned"
    /\ gGendic = "ru_inv_en"
    /\ Len(gLines) = 2
    /\ gLines[1] = <<1078>>
    /\ gDest.data # gDestAtCall.data

\* The records of the stripped wordlist.
Records == SplitLines(cOut.data)

\* C4: every record autoclean has written holds no ASCII letter, no ASCII
\* digit and no underscore, and is longer than 3 characters.
RecordsAreClean ==
    cPc \in {"loop", "done"} =>
        \A i \in 1..Len(Records) : ~RegexSearch(Records[i]) /\ Len(Records[i]) > 3

\* A line of space characters only, and the number of fields of a line.
BlankLine(line) == \A i \in 1..Len(line) : IsSpace(line[i])
FieldCount(line) ==
    Cardinality({i \in 1..Len(line) :
                    ~IsSpace(line[i]) /\ (i = 1 \/ IsSpace(line[i - 1]))})

\* C5: autoclean never raises; nothing is written for a line that is blank
\* or has fewer than index + 1 fields; every line of the input is gone
\* through and the output is what was written line by line; on an empty input
\* the output is empty and the count reported is 0.
SkipsBlankAndShortLines ==
    LET lines == SplitLinesKeep(cCorpus)
    IN  /\ cPc # "raised"
        /\ \A i \in 1..Len(cLog) :
              BlankLine(lines[i]) \/ FieldCount(lines[i]) < ColumnIndex(cDict) + 1
                  => cLog[i].text = <<>> /\ cLog[i].kind \in {"blank", "malformed"}
        /\ cPc = "done" =>
              /\ cPos = Len(lines)
              /\ Len(cLog) = Len(lines)
              /\ cOut = File(Flatten([i \in 1..Len(cLog) |-> cLog[i].text]))
              /\ cReported = <<cKept>>
        /\ cPc = "done" /\ cCorpus = <<>> =>
              cOut = File(<<>>) /\ cReported = <<0>>

\* C5's case: a line with too few fields was skipped and the lines after it
\* were gone through to the end of the input.
SkippedShortLineAndWentOn ==
    /\ cPc = "done"
    /\ \E i, j \in 1..Len(cLog) :
          /\ i < j
          /\ cLog[i].kind = "malformed"
          /\ cLog[j].kind \in {"blank", "rejected", "malformed"}

\* The text of a run: nothing unless its scheme is implemented.
RunOutput(run) ==
    IF run.gendic \in Implemented
    THEN RenderedAsCalled(run.gendic, run.lines)
    ELSE <<>>

\* C6: the destination always starts with what it held before the first run
\* and with what it held at the current call; after runs with implemented
\* schemes it holds what it held before the first run followed by the
\* output of each run, in run order.
RunsAccumulate ==
    /\ IsPrefix(gPrior.data, gDest.data)
    /\ IsPrefix(gDestAtCall.data, gDest.data)
    /\ gPc = "returned" /\ (\A i \in 1..Len(gRuns) : gRuns[i].gendic \in Implemented) =>
          gDest.data = gPrior.data \o
              Flatten([i \in 1..Len(gRuns) |-> RunOutput(gRuns[i])])

\* C6's case: two runs with implemented schemes, each over at least one
\* line, to a destination that held text before the first.
TwoRunsOverPriorContent ==
    /\ gPc = "returned"
    /\ Len(gRuns) = 2
    /\ \A i \in 1..2 : gRuns[i].gendic \in Implemented /\ gRuns[i].lines # <<>>
    /\ gPrior.data # <<>>

\* C7: throughout a run with the placeholder scheme the destination is what
\* it was at the call and has not been opened, and when the run has
\* returned, "Not implemented yet" has been printed.
PlaceholderLeavesDestination ==
    gGendic = "tran5l1t" /\ gPc \in {"read", "write", "returned", "raised"} =>
        /\ gDest = gDestAtCall
        /\ ~gOpened
        /\ gPc = "returned" => "Not implemented yet" \in Range(gStdout)

\* C7's case: a run with the placeholder scheme over a source of two lines
\* has returned, the destination being no file.
PlaceholderRunReturned ==
    /\ gGendic = "tran5l1t"
    /\ gPc = "returned"
    /\ Len(gLines) = 2
    /\ gDest = NoFile

\* The invalid combinations of arguments.
InvalidCombination(a) ==
    \/ a.autoclean /\ a.download = "none"
    \/ a.gendic # "none" /\ ~(a.source /\ a.destination)
    \/ a.compare /\ ~(a.source /\ a.destination /\ a.dictionary)

\* The operations of an invocation whose arguments are invalid.
InvalidOperations(a) ==
    (IF a.autoclean /\ a.download = "none" THEN {"autoclean"} ELSE {})
    \cup (IF a.gendic # "none" /\ ~(a.source /\ a.destination)
          THEN {"generatedictionary"} ELSE {})
    \cup (IF a.compare /\ ~(a.source /\ a.destination /\ a.dictionary)
          THEN {"compare_two_password_bases"} ELSE {})

\* C8: an invocation with an invalid combination has, when the process has
\* exited, reported a usage error as the last thing it did, exited with a
\* non-zero status, and never run an operation whose arguments are invalid.
InvalidCombinationIsUsageError ==
    aPc = "exited" /\ InvalidCombination(aArgs) =>
        /\ aLog # <<>>
        /\ aLog[Len(aLog)] = "usage error"
        /\ aExit # <<0>>
        /\ Range(aRan) \cap InvalidOperations(aArgs) = {}

\* C9: downloaddictionaries never raises: a failure to retrieve the archive,
\* to open it or to decompress it ends with the step returned and the
\* failure reported.
FetchFailuresAreCaught ==
    /\ fPc # "raised"
    /\ fFail # "none" =>
          /\ fPc = "returned"
          /\ \E i \in 1..Len(aLog) : aLog[i] \in {"Can't retrieve", "Bad zipfile"}

\* C10: a call of generatedictionary with an identifier that is none of the
\* schemes does not return normally.
UnknownSchemeFails ==
    gGendic \notin Schemes => gPc # "returned"

===========================================================================
